---- MODULE Spec2Model ----
(***************************************************************************)
(* Model of the two RAG notebooks of the repository.                       *)
(*                                                                         *)
(*  - src/unnamed/part_000: the FAISS notebook (embed, rag, the fill-mask  *)
(*    cell, retrieve_documents, generate_answer);                          *)
(*  - src/src/RAG_Groq_Llama3.ipynb: the ChromaDB / Groq notebook          *)
(*    (collection setup, ingestion loop, get_docs, generate).              *)
(*                                                                         *)
(* A text is a sequence of chunks; a chunk is an atomic piece of text (a   *)
(* sentence, a separator, a template literal).  String concatenation is    *)
(* sequence concatenation, so joins, templates and substrings are computed *)
(* and not assumed.  The pretrained models, FAISS, ChromaDB and the Groq   *)
(* API are external: each is modelled by its documented behaviour at the   *)
(* line that calls it.                                                     *)
(***************************************************************************)
EXTENDS Integers, Sequences, FiniteSets, TLC

VARIABLES
    notebook,            \* which notebook this kernel runs: "faiss" or "groq"
    cell,                \* FAISS notebook: number of code cells executed (0..3)
    documents,           \* global `documents` of the FAISS notebook
    tokenizer,           \* global `tokenizer` read by embed()
    model,               \* global `model` read by embed()
    index,               \* global `index`: [vecs, builtWith]
    embedder,            \* global `embedder` of the second example
    generator_model,     \* global `generator_model`
    g_cell,              \* Groq notebook: number of code cells executed (0..4)
    data,                \* global `data`: rows [id, metadata]
    encoder,             \* global `encoder`
    db,                  \* persistent store: [exists, entries] of "groq_llama_3_rag"
    collection,          \* global `collection`
    g_i,                 \* loop variable `i` of the ingestion loop
    ingesting,           \* TRUE while the ingestion loop is running
    batches,             \* the iterations the ingestion loop has run so far
    setup_calls,         \* the calls on `db` made by the setup cell while it runs
    g_documents,         \* global `documents` of the Groq notebook
    g_documents_query,   \* the query whose retrieval produced g_documents
    calls                \* the function invocations made by the last step

vars == <<notebook, cell, documents, tokenizer, model, index, embedder,
          generator_model, g_cell, data, encoder, db, collection, g_i, ingesting,
          batches, setup_calls, g_documents, g_documents_query, calls>>

faissVars == <<cell, documents, tokenizer, model, index, embedder, generator_model>>
groqVars == <<g_cell, data, encoder, db, collection, g_i, ingesting, batches,
              setup_calls,
              g_documents, g_documents_query>>

Nil == "nil"

-----------------------------------------------------------------------------
(* Bounds of the model.                                                    *)

\* largest requested result count tried (the corpora hold 3 documents)
MaxK == 4
\* token count of an ordinary chunk
ChunkTokens == 2
\* token count of the long chunk (longer than any tokenizer limit)
LongTokens == 520
\* largest number of dataset rows
MaxRows == 3

-----------------------------------------------------------------------------
(* Python helpers.                                                         *)

Min(a, b) == IF a <= b THEN a ELSE b

RECURSIVE Concat(_)
\* "".join(seqs): concatenation of a sequence of texts
Concat(seqs) ==
    IF seqs = <<>> THEN <<>> ELSE Head(seqs) \o Concat(Tail(seqs))

RECURSIVE Join(_, _)
\* sep.join(texts)
Join(sep, texts) ==
    IF texts = <<>> THEN <<>>
    ELSE IF Len(texts) = 1 THEN texts[1]
    ELSE texts[1] \o sep \o Join(sep, Tail(texts))

\* `needle in text` for strings
Contains(text, needle) ==
    \E s \in 0..(Len(text) - Len(needle)) :
        \A j \in 1..Len(needle) : text[s + j] = needle[j]

\* seq[idx] with Python's 0-based index, negative indices counting from the end
PyIndexOk(seq, idx) == -Len(seq) <= idx /\ idx < Len(seq)
PyIndex(seq, idx) == IF idx >= 0 THEN seq[idx + 1] ELSE seq[Len(seq) + idx + 1]

-----------------------------------------------------------------------------
(* Texts of the notebooks.  A chunk is written as a string; a text is a    *)
(* sequence of chunks.                                                     *)

SPACE == <<" ">>

\* first example, part_000:223-227
D_Eiffel == <<"A Torre Eiffel tem 324 metros de altura.">>
D_Liberdade == <<"A Estatua da Liberdade fica em Nova York.">>
D_Everest == <<"O Monte Everest e a montanha mais alta do mundo.">>
Documents1 == <<D_Eiffel, D_Liberdade, D_Everest>>

\* second example, part_000:329-334.  The third and fourth literals are
\* adjacent with no comma between them: Python concatenates them into one
\* list entry.
E_Obtida == <<"A energia renovavel e obtida de recursos naturais que se regeneram naturalmente.">>
E_Tipos == <<"Os principais tipo de energia renovavel sao solar, eolica, hidroeletrica e biomassa.">>
E_Estufa == <<"A energia renovavel ajuda a reduzir a emissao de gases de efeito estufa.">>
E_Investir == <<"Investir em energia renovavel pode impulsionar a economia verde.">>
Documents2 == <<E_Obtida, E_Tipos, E_Estufa \o E_Investir>>

\* the questions of the usage examples, part_000:266 and part_000:366
Q_Eiffel == <<"Qual e a altura da Torre Eiffel?">>
Q_Energia == <<"Fale sobre energia renovavel">>
\* a question longer than any tokenizer limit
Q_Long == <<"LONG">>

Questions == {Q_Eiffel, Q_Energia, Q_Long}

-----------------------------------------------------------------------------
(* Tokenizers.                                                             *)

\* number of tokens a chunk is split into
TokCount(c) ==
    IF c = "LONG" THEN LongTokens
    ELSE IF c = D_Everest[1] THEN ChunkTokens + 1
    ELSE ChunkTokens

RECURSIVE Tokenize(_)
\* the token ids of a text: token j of chunk c is <<c, j>>
Tokenize(text) ==
    IF text = <<>> THEN <<>>
    ELSE [j \in 1..TokCount(Head(text)) |-> <<Head(text), j>>] \o Tokenize(Tail(text))

EOS == <<"</s>", 1>>

\* truncation=True with the maximum lengths in force (the empty set when the
\* call gives no max_length and the tokenizer has none of its own): keep at
\* most max_length ids, the last one being EOS
Truncate(ids, max_lengths) ==
    IF max_lengths = {} THEN ids \o <<EOS>>
    ELSE LET max_length == CHOOSE m \in max_lengths : TRUE
         IN IF Len(ids) < max_length THEN ids \o <<EOS>>
            ELSE SubSeq(ids, 1, max_length - 1) \o <<EOS>>

\* the ptt5 tokenizer has no predefined maximum length ("Default to no
\* truncation", recorded at part_000:202)
GeneratorModelMaxLength == {}

\* generator_tokenizer.encode(input_text, return_tensors="pt", truncation=True)
RagEncode(input_text) == Truncate(Tokenize(input_text), GeneratorModelMaxLength)

\* max_length=512 of generate_answer
AnswerMaxLength == 512

\* faulty variant of AnswerEncode: the max_length / truncation arguments are
\* left out
AnswerEncode_NoTruncation(input_text) == Tokenize(input_text) \o <<EOS>>

\* generator_tokenizer(input_text, return_tensors="pt", max_length=512, truncation=True)
AnswerEncode(input_text) == Truncate(Tokenize(input_text), {AnswerMaxLength})

-----------------------------------------------------------------------------
(* Embedders.  An embedding is a rational vector [num |-> <<x, y>>, den].  *)

MiniLM == "sentence-transformers/all-MiniLM-L6-v2"
BertimbauMLM == "neuralmind/bert-base-portuguese-cased (AutoModelForMaskedLM)"
BertimbauTok == "neuralmind/bert-base-portuguese-cased"
SentenceMiniLM == "SentenceTransformer(all-MiniLM-L6-v2)"
E5Base4k == "HuggingFaceEncoder(dwzhu/e5-base-4k)"
Ptt5 == "unicamp-dl/ptt5-base-portuguese-vocab"

\* the hidden state the encoder gives a token of chunk c
ChunkVec(c) ==
    CASE c = D_Eiffel[1] -> <<6, 0>>
      [] c = D_Liberdade[1] -> <<0, 6>>
      [] c = D_Everest[1] -> <<3, 3>>
      [] c = Q_Eiffel[1] -> <<5, 1>>
      [] c = E_Obtida[1] -> <<-4, 2>>
      [] c = E_Tipos[1] -> <<-2, -6>>
      [] c = E_Estufa[1] -> <<-6, 0>>
      [] c = E_Investir[1] -> <<-6, 2>>
      [] c = Q_Energia[1] -> <<-6, 1>>
      [] c = "LONG" -> <<1, 1>>
      [] c = "llama" -> <<2, -4>>
      [] c = "finetuning" -> <<-3, -3>>
      [] c = "mixtral" -> <<4, -4>>
      [] c = "selfcheck" -> <<-5, -2>>
      [] OTHER -> <<0, 0>>

\* the hidden state at a padding position
PadVec == <<0, 0>>

RECURSIVE SumComp(_, _, _)
\* component c of the sum of the hidden states of the first n tokens of text
SumComp(text, n, c) ==
    IF text = <<>> \/ n = 0 THEN 0
    ELSE LET m == Min(TokCount(Head(text)), n)
         IN m * ChunkVec(Head(text))[c] + SumComp(Tail(text), n - m, c)

SumVec(text, n) == <<SumComp(text, n, 1), SumComp(text, n, 2)>>

RECURSIVE TokLen(_)
\* the number of tokens of a text
TokLen(text) ==
    IF text = <<>> THEN 0 ELSE TokCount(Head(text)) + TokLen(Tail(text))

Abs(x) == IF x < 0 THEN -x ELSE x

RECURSIVE Gcd(_, _)
Gcd(a, b) == IF b = 0 THEN a ELSE Gcd(b, a % b)

\* the rational vector num/den in lowest terms
Reduce(num, den) ==
    LET g == Gcd(Gcd(Abs(num[1]), Abs(num[2])), den)
    IN [num |-> <<num[1] \div g, num[2] \div g>>, den |-> den \div g]

\* the encoder's own input limit (truncation=True)
EncoderMaxLength == 512

\* the number of tokens of a text the encoder reads
EncoderLen(text) == Min(TokLen(text), EncoderMaxLength)

MaxOf(S) == CHOOSE m \in S : \A x \in S : x <= m

\* embed(texts), part_000:233-237: the batch is padded to its longest text and
\* the hidden states are averaged over ALL positions, padding included
embed(texts) ==
    LET L == MaxOf({EncoderLen(texts[t]) : t \in 1..Len(texts)})
    IN [t \in 1..Len(texts) |->
           LET n == EncoderLen(texts[t])
           IN Reduce(<<SumComp(texts[t], n, 1) + (L - n) * PadVec[1],
                       SumComp(texts[t], n, 2) + (L - n) * PadVec[2]>>, L)]

\* SentenceTransformer.encode / HuggingFaceEncoder.__call__: mean pooling over
\* the real tokens of each text (attention mask applied)
encode(texts) ==
    [t \in 1..Len(texts) |->
        Reduce(SumVec(texts[t], EncoderLen(texts[t])), EncoderLen(texts[t]))]

\* a stand-in embedder bound in place of the pretrained one for a sanity
\* check: exact-match preserving, distinct texts get distinct vectors and the
\* same text always gets the same vector
Exact == "exact-match embedder"
ExactAlphabet ==
    <<D_Eiffel[1], D_Liberdade[1], D_Everest[1], Q_Eiffel[1], ": ",
      "mixtral", "llama", "selfcheck", "finetuning",
      "title 1", "title 2", "title 3", "title 4", "title 5">>
ExactBase == Len(ExactAlphabet) + 1
RECURSIVE ExactCode(_)
ExactCode(text) ==
    IF text = <<>> THEN 0
    ELSE (CHOOSE a \in 1..Len(ExactAlphabet) : ExactAlphabet[a] = Head(text))
            + ExactBase * ExactCode(Tail(text))
ExactEmbed(texts) ==
    [t \in 1..Len(texts) |-> [num |-> <<ExactCode(texts[t]), 0>>, den |-> 1]]

\* embed(texts) and encoder(texts) / embedder.encode(texts) under the embedder
\* the globals are bound to
EmbedBy(env, texts) == IF env.model = Exact THEN ExactEmbed(texts) ELSE embed(texts)
EncodeBy(enc, texts) == IF enc = Exact THEN ExactEmbed(texts) ELSE encode(texts)

\* squared L2 distance of two embeddings, as the rational [num, den]
Dist2(a, b) ==
    LET dx == a.num[1] * b.den - b.num[1] * a.den
        dy == a.num[2] * b.den - b.num[2] * a.den
    IN [num |-> dx * dx + dy * dy, den |-> (a.den * b.den) * (a.den * b.den)]

\* d1 <= d2 for rationals with positive denominators
Leq(d1, d2) == d1.num * d2.den <= d2.num * d1.den

-----------------------------------------------------------------------------
(* FAISS.                                                                  *)

\* faulty variant of BuildIndex: the vectors are added back to front, so a
\* label no longer is the position of its document
BuildIndex_Reversed(embeddings, by) ==
    [vecs |-> [j \in 1..Len(embeddings) |-> embeddings[Len(embeddings) + 1 - j]],
     builtWith |-> by]

\* faulty variant of BuildIndex: the first vector is not added
BuildIndex_SkipFirst(embeddings, by) ==
    [vecs |-> SubSeq(embeddings, 2, Len(embeddings)), builtWith |-> by]

\* faiss.IndexFlatL2(d) followed by index.add(embeddings); builtWith records
\* the embedder that produced the vectors
BuildIndex(embeddings, by) == [vecs |-> embeddings, builtWith |-> by]

ntotal(ix) == Len(ix.vecs)

\* index.search(x, k) for one query vector: the label rows FAISS may return.
\* The min(k, ntotal) nearest vectors by ascending L2 distance (0-based
\* labels, ties in any order), then the label -1 for every missing result.
search(ix, xq, k) ==
    LET n == ntotal(ix)
        m == Min(k, n)
        d(l) == Dist2(ix.vecs[l + 1], xq)
    IN {I \in [1..k -> -1..(n - 1)] :
          /\ \A j \in 1..m : I[j] >= 0
          /\ \A j \in (m + 1)..k : I[j] = -1
          /\ \A j1, j2 \in 1..m : j1 < j2 => I[j1] # I[j2] /\ Leq(d(I[j1]), d(I[j2]))
          /\ \A l \in 0..(n - 1) :
                (\A j \in 1..m : I[j] # l) => \A j \in 1..m : Leq(d(I[j]), d(l))}

-----------------------------------------------------------------------------
(* Function invocations.  A call record holds what one invocation of a     *)
(* notebook function did: the stages it ran (trace), how it ended (status: *)
(* "returned" or "raised"), and its local variables.                       *)

NewCall(fn, site, query, k, fail) ==
    [fn |-> fn, site |-> site, query |-> query, k |-> k, fail |-> fail,
     trace |-> <<>>, status |-> "running",
     xq |-> <<>>, hits |-> <<>>, docs |-> <<>>, docsFor |-> <<>>,
     prompt |-> <<>>, inputs |-> <<>>, outputs |-> <<>>, answer |-> <<>>]

\* one statement of a function body: skipped once an exception is on its way
\* to the caller; an exception raised by it ends the invocation
Stage(r, name, ok, upd) ==
    IF r.status # "running" THEN r
    ELSE IF ok THEN [upd EXCEPT !.trace = Append(r.trace, name)]
    ELSE [r EXCEPT !.trace = Append(r.trace, name), !.status = "raised"]

\* faulty variant of Return: an exception is swallowed and a default answer
\* is returned in its place
Return_Fallback(r, value) ==
    IF r.status = "raised"
    THEN [r EXCEPT !.status = "returned", !.answer = <<"fallback">>]
    ELSE [r EXCEPT !.status = "returned", !.answer = value]

\* the return statement
Return(r, value) ==
    IF r.status # "running" THEN r
    ELSE [r EXCEPT !.status = "returned", !.answer = value]

\* the external calls of each function that may fail (out of memory, network,
\* model error); "none": no external failure during the invocation
RagFails == {"none", "embed", "search", "tokenize", "generate"}
RetrieveFails == {"none", "embed", "search"}
AnswerFails == {"none", "tokenize", "generate"}
GenerateFails == {"none", "generate"}

\* the generation model is external: it echoes its input (as recorded at
\* part_000:209 and part_000:317) or writes a text of its own, within
\* max_length; "both": it hands back two candidates, the echo first
GenChoices == {"echo", "own", "both"}

\* max_length=50 of rag, part_000:261
RagGenMaxLength == 50
\* max_length=150 of generate_answer, part_000:361
AnswerGenMaxLength == 150

\* generator_model.generate(inputs, max_length, num_beams): the rows of
\* returned sequences, the best beam first
ModelGenerate(inputs, max_length, choice) ==
    LET body == SubSeq(inputs, 1, Len(inputs) - 1)
        own == Tokenize(<<"RESPOSTA">>)
        row(ids) == SubSeq(ids, 1, Min(Len(ids), max_length - 1)) \o <<EOS>>
    IN CASE choice = "echo" -> <<row(body)>>
         [] choice = "own" -> <<row(own)>>
         [] OTHER -> <<row(body), row(own)>>

\* faulty variant of FirstOf: the last candidate is taken (outputs[-1])
FirstOf_Last(outputs) == outputs[Len(outputs)]

\* outputs[0] of rag and generate_answer, completion.choices[0] of generate
FirstOf(outputs) == outputs[1]

\* generator_tokenizer.decode(ids, skip_special_tokens=True): the chunks whose
\* tokens are all present
RECURSIVE Decode(_)
Decode(ids) ==
    IF ids = <<>> \/ Head(ids) = EOS THEN <<>>
    ELSE LET c == Head(ids)[1]
             n == TokCount(c)
         IN IF Len(ids) >= n /\ \A j \in 1..n : ids[j] = <<c, j>>
            THEN <<c>> \o Decode(SubSeq(ids, n + 1, Len(ids)))
            ELSE <<>>

-----------------------------------------------------------------------------
(* The FAISS notebook, src/unnamed/part_000.                               *)

\* the globals the notebook functions read
Env == [documents |-> documents, tokenizer |-> tokenizer, model |-> model,
        index |-> index, embedder |-> embedder]

\* model(**inputs).last_hidden_state exists for the AutoModel encoder only: the
\* output of AutoModelForMaskedLM has no such attribute (AttributeError)
EmbedWorks(env) ==
    env.model \in {MiniLM, Exact} /\ env.tokenizer = env.model

\* faulty variant of Lookup: the last label is skipped (indices[0][:-1])
Lookup_DropLast(docs, I) == [j \in 1..(Len(I) - 1) |-> PyIndex(docs, I[j])]

\* faulty variant of Lookup: the labels are read back to front
Lookup_Reversed(docs, I) == [j \in 1..Len(I) |-> PyIndex(docs, I[Len(I) + 1 - j])]

\* [documents[idx] for idx in indices[0]]
LookupOk(docs, I) == \A j \in 1..Len(I) : PyIndexOk(docs, I[j])
Lookup(docs, I) == [j \in 1..Len(I) |-> PyIndex(docs, I[j])]

\* faulty variant of RagPrompt: the question is not appended
RagPrompt_NoQuestion(retrieved_docs, question) == Join(SPACE, retrieved_docs)

\* input_text = " ".join(retrieved_docs) + " " + question
RagPrompt(retrieved_docs, question) ==
    Join(SPACE, retrieved_docs) \o SPACE \o question

\* the label rows index.search may return for the question
RagHits(env, question, top_k) ==
    IF EmbedWorks(env) THEN search(env.index, EmbedBy(env, <<question>>)[1], top_k)
    ELSE {<<>>}

\* faulty variant of rag: the generator is invoked on the question before the
\* retrieval has run, and the documents are retrieved afterwards
rag_GenerateFirst(env, site, question, top_k, fail, I, choice) ==
    LET r0 == NewCall("rag", site, question, top_k, fail)
        r1 == Stage(r0, "tokenize", fail # "tokenize",
                    [r0 EXCEPT !.inputs = RagEncode(question)])
        r2 == Stage(r1, "generate", fail # "generate",
                    [r1 EXCEPT !.outputs =
                        ModelGenerate(r1.inputs, RagGenMaxLength, choice)])
        r3 == Stage(r2, "embed", EmbedWorks(env) /\ fail # "embed",
                    [r2 EXCEPT !.xq = EmbedBy(env, <<question>>)])
        r4 == Stage(r3, "search", fail # "search", [r3 EXCEPT !.hits = I])
        r5 == Stage(r4, "lookup", LookupOk(env.documents, I),
                    [r4 EXCEPT !.docs = Lookup(env.documents, I),
                               !.docsFor = question])
        r6 == Stage(r5, "assemble", TRUE,
                    [r5 EXCEPT !.prompt = RagPrompt(r5.docs, question)])
        r7 == Stage(r6, "decode", TRUE, r6)
    IN Return(r7, Decode(FirstOf(r7.outputs)))

\* rag(question, top_k), part_000:250-263
rag(env, site, question, top_k, fail, I, choice) ==
    LET r0 == NewCall("rag", site, question, top_k, fail)
        r1 == Stage(r0, "embed", EmbedWorks(env) /\ fail # "embed",
                    [r0 EXCEPT !.xq = EmbedBy(env, <<question>>)])
        r2 == Stage(r1, "search", fail # "search", [r1 EXCEPT !.hits = I])
        r3 == Stage(r2, "lookup", LookupOk(env.documents, I),
                    [r2 EXCEPT !.docs = Lookup(env.documents, I),
                               !.docsFor = question])
        r4 == Stage(r3, "assemble", TRUE,
                    [r3 EXCEPT !.prompt = RagPrompt(r3.docs, question)])
        r5 == Stage(r4, "tokenize", fail # "tokenize",
                    [r4 EXCEPT !.inputs = RagEncode(r4.prompt)])
        r6 == Stage(r5, "generate", fail # "generate",
                    [r5 EXCEPT !.outputs =
                        ModelGenerate(r5.inputs, RagGenMaxLength, choice)])
        r7 == Stage(r6, "decode", TRUE, r6)
    IN Return(r7, Decode(FirstOf(r7.outputs)))

\* the label rows index.search may return in retrieve_documents
RetrieveHits(env, query, k) == search(env.index, encode(<<query>>)[1], k)

\* retrieve_documents(query, k), part_000:346-350
retrieve_documents(env, site, query, k, fail, I) ==
    LET r0 == NewCall("retrieve_documents", site, query, k, fail)
        r1 == Stage(r0, "embed", fail # "embed",
                    [r0 EXCEPT !.xq = encode(<<query>>)])
        r2 == Stage(r1, "search", fail # "search", [r1 EXCEPT !.hits = I])
        r3 == Stage(r2, "lookup", LookupOk(env.documents, I),
                    [r2 EXCEPT !.docs = Lookup(env.documents, I),
                               !.docsFor = query])
    IN Return(r3, <<>>)

\* faulty variant of AnswerPrompt: the context is put before the question
AnswerPrompt_ContextFirst(question, retrieved_docs) ==
    <<"summarize: context: ">> \o Join(SPACE, retrieved_docs)
        \o <<" question: ">> \o question

\* input_text = f"summarize: question: {question} context: {context}"
AnswerPrompt(question, retrieved_docs) ==
    <<"summarize: question: ">> \o question \o <<" context: ">>
        \o Join(SPACE, retrieved_docs)

\* generate_answer(question, retrieved_docs), part_000:357-363
generate_answer(site, question, retrieved_docs, docsFor, fail, choice) ==
    LET r0 == [NewCall("generate_answer", site, question, 0, fail)
                  EXCEPT !.docs = retrieved_docs, !.docsFor = docsFor]
        r1 == Stage(r0, "assemble", TRUE,
                    [r0 EXCEPT !.prompt = AnswerPrompt(question, retrieved_docs)])
        r2 == Stage(r1, "tokenize", fail # "tokenize",
                    [r1 EXCEPT !.inputs = AnswerEncode(r1.prompt)])
        r3 == Stage(r2, "generate", fail # "generate",
                    [r2 EXCEPT !.outputs =
                        ModelGenerate(r2.inputs, AnswerGenMaxLength, choice)])
        r4 == Stage(r3, "decode", TRUE, r3)
    IN Return(r4, Decode(FirstOf(r4.outputs)))

-----------------------------------------------------------------------------
(* The ChromaDB / Groq notebook, src/src/RAG_Groq_Llama3.ipynb.            *)

\* row n of the dataset after data.map / remove_columns (lines 164-176)
Row(n) ==
    [id |-> n,
     metadata |->
        [title |-> <<"title " \o ToString(n)>>,
         content |-> <<CASE n = 1 -> "mixtral"
                         [] n = 2 -> "llama"
                         [] n = 3 -> "selfcheck"
                         [] OTHER -> "finetuning">>]]

\* the queries of the notebook, lines 590 and 723
G_Query == <<"can you tell me about the Llama LLMs?">>
G_AnotherQuery == <<"Tell me about LLM and finetuning">>
GroqQueries == {G_Query, G_AnotherQuery, <<"llama">>}

\* top_k = 5, line 591
G_TopK == 5

\* batch_size = 128, line 469
batch_size == 128

\* faulty variant of RangeNext: the loop variable advances by two batches
RangeNext_TwoBatches(i) == i + 2 * batch_size

\* range(0, len(data), batch_size): the value of i after the value i
RangeNext(i) == i + batch_size

\* faulty variant of Slice: the end index is taken as inclusive
Slice_Inclusive(seq, a, b) == SubSeq(seq, a + 1, Min(b + 1, Len(seq)))

\* data[a:b] of Python, 0-based and end-exclusive
Slice(seq, a, b) == SubSeq(seq, a + 1, Min(b, Len(seq)))

\* faulty variant of Chunks: the last row of the batch gets no chunk
Chunks_DropLast(batch_metadata) ==
    [j \in 1..(Len(batch_metadata) - 1) |->
        batch_metadata[j].title \o <<": ">> \o batch_metadata[j].content]

\* chunks = [f'{x["title"]}: {x["content"]}' for x in batch_metadata]
Chunks(batch_metadata) ==
    [j \in 1..Len(batch_metadata) |->
        batch_metadata[j].title \o <<": ">> \o batch_metadata[j].content]

\* faulty variant of CollectionAdd: the embeddings are paired with the ids
\* back to front
CollectionAdd_Misaligned(entries, embeds, metadatas, ids) ==
    IF Len(embeds) # Len(ids) \/ Len(metadatas) # Len(ids) THEN entries
    ELSE LET fresh == [j \in 1..Len(ids) |->
                          [id |-> ids[j], embedding |-> embeds[Len(ids) + 1 - j],
                           metadata |-> metadatas[j]]]
             have == {entries[j].id : j \in 1..Len(entries)}
         IN entries \o SelectSeq(fresh, LAMBDA e : e.id \notin have)

\* collection.add(embeddings, metadatas, ids): appends the entries whose id is
\* not in the collection yet (an existing id is skipped with a warning);
\* lists of unequal lengths are refused and nothing is added
CollectionAdd(entries, embeds, metadatas, ids) ==
    IF Len(embeds) # Len(ids) \/ Len(metadatas) # Len(ids) THEN entries
    ELSE LET fresh == [j \in 1..Len(ids) |->
                          [id |-> ids[j], embedding |-> embeds[j],
                           metadata |-> metadatas[j]]]
             have == {entries[j].id : j \in 1..Len(entries)}
         IN entries \o SelectSeq(fresh, LAMBDA e : e.id \notin have)

\* batch['metadata'] and batch['id']: the columns of the rows of a batch
BatchMetadata(rows) == [j \in 1..Len(rows) |-> rows[j].metadata]
BatchIds(rows) == [j \in 1..Len(rows) |-> rows[j].id]

\* what one iteration of the ingestion loop computes from the rows
\* batch = data[i:i_end], lines 478-488
Batch(rows) ==
    LET batch_metadata == BatchMetadata(rows)
        chunks == Chunks(batch_metadata)
    IN [batch_metadata |-> batch_metadata, ids |-> BatchIds(rows),
        embeds |-> EncodeBy(encoder, chunks)]

\* assert len(batch_metadata) == len(ids); assert len(embeds) == len(ids)
AssertionsHold(b) ==
    Len(b.batch_metadata) = Len(b.ids) /\ Len(b.embeds) = Len(b.ids)

\* one iteration of the ingestion loop (lines 471-497) on the rows data[a:a_end]
IngestBatch(entries, rows) ==
    LET b == Batch(rows)
    IN CollectionAdd(entries, b.embeds, b.batch_metadata, b.ids)

\* collection.query(query_embeddings=xq, n_results=top_k, ...) for one query
\* embedding: the rows of hit positions (0-based, into the entries) Chroma may
\* return, the min(n_results, count) nearest by ascending distance
ChromaQuery(entries, xq, n_results) ==
    LET n == Len(entries)
        m == Min(n_results, n)
        d(l) == Dist2(entries[l + 1].embedding, xq)
    IN {I \in [1..m -> 0..(n - 1)] :
          /\ \A j1, j2 \in 1..m : j1 < j2 => I[j1] # I[j2] /\ Leq(d(I[j1]), d(I[j2]))
          /\ \A l \in 0..(n - 1) :
                (\A j \in 1..m : I[j] # l) => \A j \in 1..m : Leq(d(I[j]), d(l))}

\* metadata.get(key, default)
MetadataGet(metadata, key, default) ==
    IF key \in DOMAIN metadata THEN metadata[key] ELSE default

\* faulty variant of ExtractDocs: only the first hit of each sublist is read
ExtractDocs_FirstOnly(metadatas) ==
    Concat([s \in 1..Len(metadatas) |->
              [j \in 1..Min(1, Len(metadatas[s])) |->
                  MetadataGet(metadatas[s][j], "content", <<>>)]])

\* docs = [metadata.get("content", "") for sublist in results["metadatas"]
\*         for metadata in sublist]
ExtractDocs(metadatas) ==
    Concat([s \in 1..Len(metadatas) |->
              [j \in 1..Len(metadatas[s]) |->
                  MetadataGet(metadatas[s][j], "content", <<>>)]])

\* the hit rows collection.query may return in get_docs
GetDocsHits(entries, query, top_k) ==
    ChromaQuery(entries, EncodeBy(encoder, <<query>>)[1], top_k)

\* get_docs(query, top_k, collection), lines 542-570
get_docs(entries, site, query, top_k, fail, I) ==
    LET r0 == NewCall("get_docs", site, query, top_k, fail)
        r1 == Stage(r0, "embed", fail # "embed",
                    [r0 EXCEPT !.xq = EncodeBy(encoder, <<query>>)])
        r2 == Stage(r1, "search", fail # "search", [r1 EXCEPT !.hits = I])
        r3 == Stage(r2, "lookup", TRUE,
                    [r2 EXCEPT !.docs =
                        ExtractDocs(<<[j \in 1..Len(I) |-> entries[I[j] + 1].metadata]>>),
                               !.docsFor = query])
    IN Return(r3, <<>>)

\* the adjacent string literals of lines 648-651: Python joins them into ONE
\* literal before .join is applied to it
HEADER == <<"You are a helpful assistant that answers questions about AI using the context provided below.",
            "CONTEXT:">>
SEP == <<"---">>

\* system_message = ("You are ..." "CONTEXT:\n" "\n---\n".join(docs))
SystemMessage(docs) == Join(HEADER \o SEP, docs)

\* messages, lines 653-656
Messages(query, docs) ==
    <<[role |-> "system", content |-> SystemMessage(docs)],
      [role |-> "user", content |-> query]>>

\* groq_client.chat.completions.create(model, messages): the list of choices
ChatCreate(messages, choice) ==
    CASE choice = "echo" -> <<messages[2].content>>
      [] choice = "own" -> <<<<"RESPOSTA">>>>
      [] OTHER -> <<messages[2].content, <<"RESPOSTA">>>>

\* generate(query, docs), lines 646-662
generate(site, query, docs, docsFor, fail, choice) ==
    LET r0 == [NewCall("generate", site, query, 0, fail)
                  EXCEPT !.docs = docs, !.docsFor = docsFor]
        r1 == Stage(r0, "assemble", TRUE,
                    [r0 EXCEPT !.prompt = SystemMessage(docs),
                               !.inputs = Messages(query, docs)])
        r2 == Stage(r1, "generate", fail # "generate",
                    [r1 EXCEPT !.outputs = ChatCreate(r1.inputs, choice)])
    IN Return(r2, FirstOf(r2.outputs))

\* collection_name, line 448
collection_name == "groq_llama_3_rag"

\* db.get_or_create_collection(name)
GetOrCreateCollection(store) == [store EXCEPT !.exists = TRUE]

\* db.create_collection(name): refused when the name exists already
CreateCollectionOk(store) == ~store.exists
CreateCollection(store) ==
    IF store.exists THEN store ELSE [exists |-> TRUE, entries |-> <<>>]

\* db.get_collection(name): refused when there is no collection of that name
GetCollectionOk(store) == store.exists

\* [collection.name for collection in db.list_collections()]
ListCollections(store) == IF store.exists THEN {collection_name} ELSE {}

\* faulty variant of SetupBranch: the test is inverted
SetupBranch_Inverted(existing_collections) ==
    IF collection_name \in existing_collections
    THEN "create_collection" ELSE "get_collection"

\* if collection_name not in existing_collections: ... else: ...
SetupBranch(existing_collections) ==
    IF collection_name \notin existing_collections
    THEN "create_collection" ELSE "get_collection"

\* the calls the collection setup makes on db, lines 449-466, each with
\* whether the collection existed when it was made and whether it returned
SetupCalls(store) ==
    LET store1 == GetOrCreateCollection(store)
        branch == SetupBranch(ListCollections(store1))
    IN <<[api |-> "get_or_create_collection", existed |-> store.exists,
          ok |-> TRUE],
         [api |-> branch, existed |-> store1.exists,
          ok |-> IF branch = "create_collection" THEN CreateCollectionOk(store1)
                 ELSE GetCollectionOk(store1)]>>

\* faulty variant of SetupStore: the collection is deleted before it is
\* created (db.delete_collection of lines 417-421 run first)
SetupStore_DeleteFirst(store) == [exists |-> TRUE, entries |-> <<>>]

\* the collection setup, lines 447-466: the store after it
SetupStore(store) ==
    LET store1 == GetOrCreateCollection(store)
        existing_collections == ListCollections(store1)
    IN IF SetupBranch(existing_collections) = "create_collection"
       THEN CreateCollection(store1)
       ELSE store1

-----------------------------------------------------------------------------
(* Initial state: a fresh kernel of one of the two notebooks.  For the     *)
(* Groq notebook the cells up to the collection setup have run: `data` is  *)
(* loaded and mapped, `encoder` and `db` are created; the persistent store *)
(* may hold the collection from an earlier run.                            *)

NoIndex == [vecs |-> <<>>, builtWith |-> [model |-> Nil, tokenizer |-> Nil]]
NoStore == [exists |-> FALSE, entries |-> <<>>]

Dataset(n) == [r \in 1..n |-> Row(r)]

Init ==
    /\ notebook \in {"faiss", "groq"}
    /\ cell = 0
    /\ documents = <<>>
    /\ tokenizer = Nil
    /\ model = Nil
    /\ index = NoIndex
    /\ embedder = Nil
    /\ generator_model = Nil
    /\ g_cell = 0
    /\ IF notebook = "groq"
       THEN /\ \E n \in 0..MaxRows : data = Dataset(n)
            /\ encoder = E5Base4k
            /\ db \in {NoStore,
                       [exists |-> TRUE, entries |-> <<>>],
                       [exists |-> TRUE, entries |-> IngestBatch(<<>>, data)]}
       ELSE /\ data = <<>>
            /\ encoder = Nil
            /\ db = NoStore
    /\ collection = Nil
    /\ g_i = 0
    /\ ingesting = FALSE
    /\ batches = <<>>
    /\ setup_calls = <<>>
    /\ g_documents = <<>>
    /\ g_documents_query = <<>>
    /\ calls = <<>>

-----------------------------------------------------------------------------
(* Steps of the FAISS notebook.                                            *)

\* faulty variant of QueryFrame: the function stores its retrieved documents
\* in the global `documents`
QueryFrame_RebindsDocuments ==
    /\ documents' = calls'[1].docs
    /\ UNCHANGED <<notebook, cell, tokenizer, model, index, embedder,
                   generator_model, groqVars>>

\* a function of the notebooks assigns only its own local variables
QueryFrame == UNCHANGED <<notebook, faissVars, groqVars>>

\* first example, part_000:214-267: the globals, then print(rag(question))
Cell1 ==
    /\ notebook = "faiss" /\ cell = 0
    /\ LET env == [documents |-> Documents1, tokenizer |-> MiniLM, model |-> MiniLM,
                   index |-> BuildIndex(embed(Documents1),
                                        [model |-> MiniLM, tokenizer |-> MiniLM]),
                   embedder |-> embedder]
       IN /\ documents' = env.documents
          /\ tokenizer' = env.tokenizer
          /\ model' = env.model
          /\ index' = env.index
          /\ generator_model' = Ptt5
          /\ \E I \in RagHits(env, Q_Eiffel, 1), choice \in GenChoices :
                calls' = <<rag(env, "cell", Q_Eiffel, 1, "none", I, choice)>>
    /\ cell' = 1
    /\ UNCHANGED <<notebook, embedder, groqVars>>

\* the fill-mask cell, part_000:293-304: rebinds `model` and `tokenizer`
FillMaskCell ==
    /\ notebook = "faiss" /\ cell = 1
    /\ model' = BertimbauMLM
    /\ tokenizer' = BertimbauTok
    /\ calls' = <<>>
    /\ cell' = 2
    /\ UNCHANGED <<notebook, documents, index, embedder, generator_model, groqVars>>

\* second example, part_000:322-370: rebinds `documents` and `index`, then
\* retrieve_documents(question) and generate_answer(question, retrieved_docs)
Cell3 ==
    /\ notebook = "faiss" /\ cell = 2
    /\ LET env == [documents |-> Documents2, tokenizer |-> tokenizer, model |-> model,
                   index |-> BuildIndex(encode(Documents2),
                                        [model |-> SentenceMiniLM,
                                         tokenizer |-> SentenceMiniLM]),
                   embedder |-> SentenceMiniLM]
       IN /\ documents' = env.documents
          /\ embedder' = env.embedder
          /\ index' = env.index
          /\ generator_model' = Ptt5
          /\ \E I \in RetrieveHits(env, Q_Energia, 2), choice \in GenChoices :
                LET r == retrieve_documents(env, "cell", Q_Energia, 2, "none", I)
                IN calls' = <<r, generate_answer("cell", Q_Energia, r.docs,
                                                 r.docsFor, "none", choice)>>
    /\ cell' = 3
    /\ UNCHANGED <<notebook, tokenizer, model, groqVars>>

\* rag(question, top_k) called after the cell that defines it
CallRag ==
    /\ notebook = "faiss" /\ cell >= 1
    /\ \E question \in Questions, top_k \in 1..MaxK, fail \in RagFails :
         \E I \in RagHits(Env, question, top_k), choice \in GenChoices :
            calls' = <<rag(Env, "call", question, top_k, fail, I, choice)>>
    /\ QueryFrame

\* retrieve_documents(query, k) called after the cell that defines it
CallRetrieveDocuments ==
    /\ notebook = "faiss" /\ cell = 3
    /\ \E query \in Questions, k \in 1..MaxK, fail \in RetrieveFails :
         \E I \in RetrieveHits(Env, query, k) :
            calls' = <<retrieve_documents(Env, "call", query, k, fail, I)>>
    /\ QueryFrame

\* the lists of documents passed to generate_answer
DocLists == {<<>>, <<E_Obtida>>, <<E_Tipos, E_Obtida>>, Documents2}

\* generate_answer(question, retrieved_docs) called after the cell that defines it
CallGenerateAnswer ==
    /\ notebook = "faiss" /\ cell = 3
    /\ \E question \in Questions, retrieved_docs \in DocLists,
          fail \in AnswerFails, choice \in GenChoices :
            calls' = <<generate_answer("call", question, retrieved_docs, <<>>,
                                       fail, choice)>>
    /\ QueryFrame

-----------------------------------------------------------------------------
(* Steps of the Groq notebook.                                             *)

\* the collection setup, lines 447-469, up to the head of the ingestion
\* loop; a call that db refuses raises and ends the cell
SetupCollection ==
    /\ notebook = "groq" /\ g_cell = 0 /\ ~ingesting /\ setup_calls = <<>>
    /\ db' = SetupStore(db)
    /\ setup_calls' = SetupCalls(db)
    /\ collection' = collection_name
    /\ g_i' = 0
    /\ ingesting' = \A c \in 1..Len(setup_calls') : setup_calls'[c].ok
    /\ batches' = <<>>
    /\ calls' = <<>>
    /\ UNCHANGED <<notebook, faissVars, g_cell, data, encoder, g_documents,
                   g_documents_query>>

\* one iteration of `for i in tqdm(range(0, len(data), batch_size))`; a
\* failing assertion ends the cell before collection.add
IngestStep ==
    /\ notebook = "groq" /\ ingesting /\ g_i < Len(data)
    /\ LET i_end == Min(Len(data), g_i + batch_size)
           batch == Slice(data, g_i, i_end)
           b == Batch(batch)
       IN /\ batches' = Append(batches,
                               [i |-> g_i, ids |-> b.ids,
                                n_metadata |-> Len(b.batch_metadata),
                                n_embeds |-> Len(b.embeds)])
          /\ IF AssertionsHold(b)
             THEN /\ db' = [db EXCEPT !.entries = IngestBatch(db.entries, batch)]
                  /\ g_i' = RangeNext(g_i)
                  /\ ingesting' = TRUE
             ELSE /\ ingesting' = FALSE
                  /\ UNCHANGED <<db, g_i>>
    /\ calls' = <<>>
    /\ UNCHANGED <<notebook, faissVars, g_cell, data, encoder, collection,
                   setup_calls, g_documents, g_documents_query>>

\* the range is exhausted: the cell ends
IngestDone ==
    /\ notebook = "groq" /\ ingesting /\ g_i >= Len(data)
    /\ ingesting' = FALSE
    /\ g_cell' = 1
    /\ setup_calls' = <<>>
    /\ calls' = <<>>
    /\ UNCHANGED <<notebook, faissVars, data, encoder, db, collection, g_i,
                   batches, g_documents, g_documents_query>>

\* the retrieval cell, lines 587-594
RetrievalCell ==
    /\ notebook = "groq" /\ g_cell = 1
    /\ collection' = collection_name
    /\ \E I \in GetDocsHits(db.entries, G_Query, G_TopK) :
         LET r == get_docs(db.entries, "cell", G_Query, G_TopK, "none", I)
         IN /\ calls' = <<r>>
            /\ g_documents' = r.docs
            /\ g_documents_query' = r.docsFor
    /\ g_cell' = 2
    /\ UNCHANGED <<notebook, faissVars, data, encoder, db, g_i, ingesting,
                   batches, setup_calls>>

\* out = generate(query=query, docs=documents), lines 688-689
GenerateCell ==
    /\ notebook = "groq" /\ g_cell = 2
    /\ \E choice \in GenChoices :
         calls' = <<generate("cell", G_Query, g_documents, g_documents_query,
                             "none", choice)>>
    /\ g_cell' = 3
    /\ UNCHANGED <<notebook, faissVars, data, encoder, db, collection, g_i,
                   ingesting, batches, setup_calls, g_documents,
                   g_documents_query>>

\* out = generate(query=another_query, docs=documents), lines 723-725
GenerateCell2 ==
    /\ notebook = "groq" /\ g_cell = 3
    /\ \E choice \in GenChoices :
         calls' = <<generate("cell", G_AnotherQuery, g_documents,
                             g_documents_query, "none", choice)>>
    /\ g_cell' = 4
    /\ UNCHANGED <<notebook, faissVars, data, encoder, db, collection, g_i,
                   ingesting, batches, setup_calls, g_documents,
                   g_documents_query>>

\* get_docs(query, top_k, collection) called after the ingestion
CallGetDocs ==
    /\ notebook = "groq" /\ g_cell >= 1
    /\ \E query \in GroqQueries, top_k \in 1..MaxK, fail \in RetrieveFails :
         \E I \in GetDocsHits(db.entries, query, top_k) :
            calls' = <<get_docs(db.entries, "call", query, top_k, fail, I)>>
    /\ QueryFrame

\* the lists of documents passed to generate
GroqDocLists ==
    {<<>>, <<Row(2).metadata.content>>,
     <<Row(2).metadata.content, Row(1).metadata.content>>,
     <<Row(3).metadata.content, Row(1).metadata.content, Row(2).metadata.content>>}

\* generate(query, docs) called after the cell that defines it
CallGenerate ==
    /\ notebook = "groq" /\ g_cell >= 2
    /\ \E query \in GroqQueries, docs \in GroqDocLists,
          fail \in GenerateFails, choice \in GenChoices :
            calls' = <<generate("call", query, docs, <<>>, fail, choice)>>
    /\ QueryFrame

-----------------------------------------------------------------------------

Next ==
    \/ Cell1
    \/ FillMaskCell
    \/ Cell3
    \/ CallRag
    \/ CallRetrieveDocuments
    \/ CallGenerateAnswer
    \/ SetupCollection
    \/ IngestStep
    \/ IngestDone
    \/ RetrievalCell
    \/ GenerateCell
    \/ GenerateCell2
    \/ CallGetDocs
    \/ CallGenerate

Spec == Init /\ [][Next]_vars

-----------------------------------------------------------------------------
(* The exact-match sanity check: the notebooks with the stand-in embedder  *)
(* bound in place of the pretrained one, queried with k = 1 by the text of *)
(* an indexed document.                                                    *)

MaxDocs == 3

\* the corpora of the check: up to MaxDocs of the sentences, in any order,
\* repeats included
ExactCorpora ==
    UNION {[1..n -> {D_Eiffel, D_Liberdade, D_Everest}] : n \in 1..MaxDocs}

InitExact ==
    /\ notebook \in {"faiss", "groq"}
    /\ embedder = Nil
    /\ g_cell = 0
    /\ IF notebook = "faiss"
       THEN /\ cell = 1
            /\ documents \in ExactCorpora
            /\ tokenizer = Exact
            /\ model = Exact
            /\ index = BuildIndex(ExactEmbed(documents),
                                  [model |-> Exact, tokenizer |-> Exact])
            /\ generator_model = Ptt5
            /\ data = <<>>
            /\ encoder = Nil
            /\ db = NoStore
       ELSE /\ cell = 0
            /\ documents = <<>>
            /\ tokenizer = Nil
            /\ model = Nil
            /\ index = NoIndex
            /\ generator_model = Nil
            /\ \E n \in 0..MaxRows : data = Dataset(n)
            /\ encoder = Exact
            /\ db \in {NoStore, [exists |-> TRUE, entries |-> <<>>]}
    /\ collection = Nil
    /\ g_i = 0
    /\ ingesting = FALSE
    /\ batches = <<>>
    /\ setup_calls = <<>>
    /\ g_documents = <<>>
    /\ g_documents_query = <<>>
    /\ calls = <<>>

\* rag(question, top_k=1) with the text of an indexed document as question
ExactRag ==
    /\ notebook = "faiss" /\ cell >= 1
    /\ \E d \in 1..Len(documents) :
         \E I \in RagHits(Env, documents[d], 1), choice \in GenChoices :
            calls' = <<rag(Env, "call", documents[d], 1, "none", I, choice)>>
    /\ QueryFrame

\* get_docs(query, top_k=1, collection) with the embedded text of a row as query
ExactGetDocs ==
    /\ notebook = "groq" /\ g_cell >= 1
    /\ \E r \in 1..Len(data) :
         LET query == Chunks(<<data[r].metadata>>)[1]
         IN \E I \in GetDocsHits(db.entries, query, 1) :
               calls' = <<get_docs(db.entries, "call", query, 1, "none", I)>>
    /\ QueryFrame

NextExact ==
    \/ ExactRag
    \/ SetupCollection
    \/ IngestStep
    \/ IngestDone
    \/ ExactGetDocs

SpecExact == InitExact /\ [][NextExact]_vars

-----------------------------------------------------------------------------
(* The collection setup and the ingestion loop on datasets of several      *)
(* batches: the dataset lengths around the multiples of batch_size.        *)

MaxBatches == 2
MaxSlack == 3

IngestSizes ==
    {n \in 0..(MaxBatches * batch_size + MaxSlack) :
        \E b \in 0..MaxBatches, d \in 0..MaxSlack :
            n = b * batch_size + d \/ n = b * batch_size - d}

InitIngest ==
    /\ notebook = "groq"
    /\ cell = 0
    /\ documents = <<>>
    /\ tokenizer = Nil
    /\ model = Nil
    /\ index = NoIndex
    /\ embedder = Nil
    /\ generator_model = Nil
    /\ g_cell = 0
    /\ \E n \in IngestSizes : data = Dataset(n)
    /\ encoder = E5Base4k
    /\ db \in {NoStore,
               [exists |-> TRUE, entries |-> <<>>],
               [exists |-> TRUE, entries |-> IngestBatch(<<>>, data)]}
    /\ collection = Nil
    /\ g_i = 0
    /\ ingesting = FALSE
    /\ batches = <<>>
    /\ setup_calls = <<>>
    /\ g_documents = <<>>
    /\ g_documents_query = <<>>
    /\ calls = <<>>

NextIngest ==
    \/ SetupCollection
    \/ IngestStep
    \/ IngestDone

SpecIngest == InitIngest /\ [][NextIngest]_vars

-----------------------------------------------------------------------------
(* Properties.                                                             *)

CallSet == {calls[j] : j \in 1..Len(calls)}

\* the invocation ran the stage / ran it to its end
Reached(c, stage) == \E j \in 1..Len(c.trace) : c.trace[j] = stage
Done(c, stage) ==
    /\ Reached(c, stage)
    /\ ~(c.status = "raised" /\ c.trace[Len(c.trace)] = stage)

RetrievalFns == {"rag", "retrieve_documents", "get_docs"}

\* the statements of each function, in program order
StagesOf(fn) ==
    CASE fn = "rag" ->
            <<"embed", "search", "lookup", "assemble", "tokenize", "generate", "decode">>
      [] fn = "retrieve_documents" -> <<"embed", "search", "lookup">>
      [] fn = "generate_answer" -> <<"assemble", "tokenize", "generate", "decode">>
      [] fn = "get_docs" -> <<"embed", "search", "lookup">>
      [] fn = "generate" -> <<"assemble", "generate">>

\* the number of documents in the index / collection a retrieval searched
CorpusSize(c) == IF c.fn = "get_docs" THEN Len(db.entries) ELSE ntotal(index)

\* the stored text and the stored vector of the hit with the given label
DocumentOf(c, label) ==
    IF c.fn = "get_docs" THEN db.entries[label + 1].metadata.content
    ELSE documents[label + 1]
VectorOf(c, label) ==
    IF c.fn = "get_docs" THEN db.entries[label + 1].embedding
    ELSE index.vecs[label + 1]

\* C1: a retrieval by rag or retrieve_documents with requested count k on an
\* index of N documents yields at most min(k, N) documents.
C1_AtMostMinKN ==
    \A c \in CallSet :
        c.fn \in {"rag", "retrieve_documents"} /\ Done(c, "lookup")
            => Len(c.docs) <= Min(c.k, ntotal(index))

\* C2: once rag is defined, the model and tokenizer that embed() reads are
\* those of the embedder that produced the vectors of the index rag searches.
C2_SameEmbedder ==
    (notebook = "faiss" /\ cell >= 1)
        => [model |-> model, tokenizer |-> tokenizer] = index.builtWith

\* C3: the system message of generate is the instruction header once,
\* followed by the documents joined by the separator, for every docs list.
C3_HeaderOnce ==
    \A c \in CallSet :
        c.fn = "generate" /\ Done(c, "assemble")
            => c.prompt = HEADER \o Join(SEP, c.docs)

\* C4: the prompt handed to the generation model (input_text of rag and of
\* generate_answer, the messages of generate) contains the query text and
\* every retrieved document text verbatim.
C4_PromptContainsQueryAndDocs ==
    \A c \in CallSet :
        Done(c, "assemble") =>
            IF c.fn = "generate"
            THEN /\ \E m \in 1..Len(c.inputs) : Contains(c.inputs[m].content, c.query)
                 /\ \A d \in 1..Len(c.docs) :
                       \E m \in 1..Len(c.inputs) :
                           Contains(c.inputs[m].content, c.docs[d])
            ELSE /\ Contains(c.prompt, c.query)
                 /\ \A d \in 1..Len(c.docs) : Contains(c.prompt, c.docs[d])

\* rag assembled a prompt from two or more retrieved documents
C4_Witness ==
    \E c \in CallSet :
        c.fn = "rag" /\ Done(c, "assemble") /\ Len(c.docs) >= 2 /\ c.prompt # <<>>

\* C5: every generator invocation made by the notebooks passes, with its
\* query q, a document list obtained by a retrieval for q.
C5_DocsRetrievedForQuery ==
    \A c \in CallSet :
        c.site = "cell" /\ Reached(c, "generate") => c.docsFor = c.query

\* C6 (as stated): the token ids that reach the generator in rag and
\* generate_answer are those of the complete assembled prompt.
C6_CompletePromptReachesGenerator ==
    \A c \in CallSet :
        c.fn \in {"rag", "generate_answer"} /\ Reached(c, "generate")
            => c.inputs = Tokenize(c.prompt) \o <<EOS>>

\* C6 (amended): rag hands the complete assembled prompt to the generator
\* whatever its length; generate_answer hands it complete only when it has
\* fewer than 512 tokens, and otherwise hands its first 511 tokens followed
\* by the end-of-sequence token.
C6_TruncationOnlyInGenerateAnswer ==
    \A c \in CallSet :
        Reached(c, "generate") =>
            /\ c.fn = "rag" => c.inputs = Tokenize(c.prompt) \o <<EOS>>
            /\ c.fn = "generate_answer" =>
                  IF TokLen(c.prompt) < AnswerMaxLength
                  THEN c.inputs = Tokenize(c.prompt) \o <<EOS>>
                  ELSE c.inputs =
                          SubSeq(Tokenize(c.prompt), 1, AnswerMaxLength - 1) \o <<EOS>>

\* generate_answer reached the generator with a prompt of 512 tokens or more
C6_Witness ==
    \E c \in CallSet :
        /\ c.fn = "generate_answer" /\ Reached(c, "generate")
        /\ TokLen(c.prompt) >= AnswerMaxLength

\* C7: whenever the index or collection holds at least k documents, a
\* retrieval with requested count k yields exactly k documents.
C7_ExactlyK ==
    \A c \in CallSet :
        c.fn \in RetrievalFns /\ Done(c, "lookup") /\ CorpusSize(c) >= c.k
            => Len(c.docs) = c.k

\* rag retrieved with k >= 2 from an index holding at least k documents
C7_Witness ==
    \E c \in CallSet :
        /\ c.fn = "rag" /\ Done(c, "lookup")
        /\ c.k >= 2 /\ CorpusSize(c) >= c.k

\* C8: the retrieved list keeps the order of the search result: it has one
\* position per returned label, position j holds the document of the j-th
\* hit, and the hits are in ascending distance to the query.
C8_OrderKept ==
    \A c \in CallSet :
        c.fn \in RetrievalFns /\ Done(c, "lookup") =>
            /\ Len(c.docs) = Len(c.hits)
            /\ \A j \in 1..Len(c.hits) :
                  c.hits[j] >= 0 => c.docs[j] = DocumentOf(c, c.hits[j])
            /\ \A j1, j2 \in 1..Len(c.hits) :
                  (j1 < j2 /\ c.hits[j1] >= 0 /\ c.hits[j2] >= 0)
                      => Leq(Dist2(VectorOf(c, c.hits[j1]), c.xq[1]),
                             Dist2(VectorOf(c, c.hits[j2]), c.xq[1]))

\* a retrieval returned two or more hits of different documents
C8_Witness ==
    \E c \in CallSet :
        /\ c.fn \in {"rag", "retrieve_documents"} /\ Done(c, "lookup")
        /\ Len(c.hits) >= 2 /\ c.hits[1] >= 0 /\ c.hits[2] >= 0
        /\ c.docs[1] # c.docs[2]

\* C9: a step that is an invocation of rag, retrieve_documents,
\* generate_answer, get_docs or generate leaves the index / collection
\* contents, the documents list and the loaded models unchanged.
C9_QueriesReadOnly ==
    [][(calls' # <<>> /\ \A j \in 1..Len(calls') : calls'[j].site = "call")
          => /\ documents' = documents
             /\ index' = index
             /\ tokenizer' = tokenizer
             /\ model' = model
             /\ embedder' = embedder
             /\ generator_model' = generator_model
             /\ data' = data
             /\ encoder' = encoder
             /\ db' = db
             /\ collection' = collection]_vars

\* a function was invoked on its own and returned
C9_Witness ==
    \E c \in CallSet :
        c.site = "call" /\ c.status = "returned" /\ c.fn \in RetrievalFns

\* C10: a failing stage ends the invocation with the exception: the failing
\* stage is the last one run, no stage is run twice, no stage outside the
\* function's own sequence is run, and no answer is returned.
C10_FailurePropagates ==
    \A c \in CallSet :
        /\ c.status \in {"returned", "raised"}
        /\ c.trace = SubSeq(StagesOf(c.fn), 1, Len(c.trace))
        /\ c.status = "returned" => c.trace = StagesOf(c.fn)
        /\ c.status = "raised" => c.answer = <<>> /\ c.outputs = <<>>
        /\ (c.fail # "none" /\ Reached(c, c.fail))
              => c.status = "raised" /\ c.trace[Len(c.trace)] = c.fail

\* the generation call of an invocation failed
C10_Witness ==
    \E c \in CallSet :
        /\ c.fail = "generate" /\ Reached(c, "generate")
        /\ c.status = "raised"

GeneratorFns == {"rag", "generate_answer", "generate"}

\* every occurrence of stage s1 in the invocation precedes every one of s2
Before(c, s1, s2) ==
    \A j1, j2 \in 1..Len(c.trace) :
        c.trace[j1] = s1 /\ c.trace[j2] = s2 => j1 < j2

\* C11: within one query the stages happen in the order embed the query,
\* search the index, assemble the prompt, generate, return: a search runs only
\* on an embedded query, the generator is invoked only after that query's
\* retrieval has returned and its prompt is assembled, and an answer is
\* returned only after the generation has returned.
C11_StagesInOrder ==
    /\ \A c \in CallSet :
          /\ Before(c, "embed", "search")
          /\ Before(c, "search", "lookup")
          /\ Before(c, "lookup", "assemble")
          /\ Before(c, "assemble", "generate")
          /\ Reached(c, "search") => Done(c, "embed")
          /\ Reached(c, "lookup") => Done(c, "search")
          /\ Reached(c, "generate") => Done(c, "assemble")
          /\ (c.fn = "rag" /\ Reached(c, "generate")) => Done(c, "lookup")
          /\ (c.fn \in GeneratorFns /\ c.status = "returned") => Done(c, "generate")
    /\ \A j \in 1..Len(calls) :
          (calls[j].fn = "generate_answer" /\ calls[j].site = "cell")
              => /\ j > 1
                 /\ calls[j - 1].fn = "retrieve_documents"
                 /\ calls[j - 1].status = "returned"
                 /\ calls[j].docs = calls[j - 1].docs

\* rag went through all its stages and returned; the usage cell of the second
\* example retrieved and then generated
C11_Witness ==
    \/ \E c \in CallSet :
          c.fn = "rag" /\ c.status = "returned" /\ Done(c, "generate")
             /\ Done(c, "lookup") /\ c.answer # <<>>
    \/ /\ Len(calls) = 2
       /\ calls[2].fn = "generate_answer" /\ calls[2].status = "returned"

\* C12: each query invokes the generation model exactly once and returns
\* exactly one answer string, the first candidate, whatever the number of
\* candidates the model hands back; an invocation that raised invoked it at
\* most once and returned no answer.
C12_OneGenerationOneAnswer ==
    \A c \in CallSet :
        c.fn \in GeneratorFns =>
            LET n == Cardinality({j \in 1..Len(c.trace) : c.trace[j] = "generate"})
            IN IF c.status = "returned"
               THEN /\ n = 1
                    /\ Len(c.outputs) >= 1
                    /\ c.answer = IF c.fn = "generate" THEN c.outputs[1]
                                  ELSE Decode(c.outputs[1])
               ELSE n <= 1 /\ c.answer = <<>>

\* the model handed back two candidates and the invocation returned
C12_Witness ==
    \E c \in CallSet :
        c.fn \in GeneratorFns /\ c.status = "returned" /\ Len(c.outputs) = 2
           /\ c.outputs[1] # c.outputs[2]

\* C13: embedding is deterministic: the vector embed() gave a document inside
\* the batch of all documents equals the vector embed() gives the same text
\* when it is embedded alone.
C13_EmbedBatchIndependent ==
    (notebook = "faiss" /\ cell >= 1 /\ index.builtWith.model = MiniLM)
        => \A d \in 1..Len(documents) :
              index.vecs[d] = embed(<<documents[d]>>)[1]

\* C18: every index value rag or retrieve_documents uses to look up a
\* document is a real hit, 0 <= idx < N, never the placeholder -1.
C18_LookupIndexIsRealHit ==
    \A c \in CallSet :
        (c.fn \in {"rag", "retrieve_documents"} /\ Reached(c, "lookup"))
            => \A j \in 1..Len(c.hits) :
                  0 <= c.hits[j] /\ c.hits[j] < ntotal(index)

\* C14: with an exact-match-preserving embedder, a k=1 retrieval whose query
\* is the text of an indexed document returns that document as the single
\* hit, for every document of the corpus: rag retrieves the queried sentence,
\* get_docs the content of the row whose embedded text is the query.
C14_ExactMatchTop1 ==
    \A c \in CallSet :
        (c.k = 1 /\ Done(c, "lookup")) =>
            /\ (c.fn = "rag" /\ model = Exact
                    /\ \E d \in 1..Len(documents) : documents[d] = c.query)
                  => /\ Len(c.hits) = 1
                     /\ c.hits[1] \in 0..(Len(documents) - 1)
                     /\ documents[c.hits[1] + 1] = c.query
                     /\ c.docs = <<c.query>>
            /\ (c.fn = "get_docs" /\ encoder = Exact
                    /\ \E e \in 1..Len(db.entries) :
                          Chunks(<<db.entries[e].metadata>>)[1] = c.query)
                  => /\ Len(c.hits) = 1
                     /\ c.hits[1] \in 0..(Len(db.entries) - 1)
                     /\ Chunks(<<db.entries[c.hits[1] + 1].metadata>>)[1] = c.query
                     /\ c.docs = <<db.entries[c.hits[1] + 1].metadata.content>>

\* rag was asked for a document that is not the first of a corpus of several
\* distinct documents, and get_docs for a row that is not the first
C14_Witness ==
    \E c \in CallSet :
        /\ c.k = 1 /\ Done(c, "lookup") /\ c.status = "returned"
        /\ \/ /\ c.fn = "rag" /\ model = Exact
              /\ Len(documents) >= 2 /\ documents[1] # c.query
              /\ documents[Len(documents)] = c.query
           \/ /\ c.fn = "get_docs" /\ encoder = Exact
              /\ Len(db.entries) >= 2
              /\ Chunks(<<db.entries[Len(db.entries)].metadata>>)[1] = c.query

\* the text the ingestion loop embeds for a row: its title, ": ", its content
ChunkOfRow(row) == row.metadata.title \o <<": ">> \o row.metadata.content

\* C16: after the ingestion loop has completed over a dataset of N rows with
\* unique ids, the collection holds exactly one entry per row and no other:
\* for every row one entry with the row's id, the row's metadata and the
\* embedding of the row's chunk.
C16_OneEntryPerRow ==
    (notebook = "groq" /\ g_cell >= 1) =>
        /\ Len(db.entries) = Len(data)
        /\ \A r \in 1..Len(data) :
              LET S == {e \in 1..Len(db.entries) : db.entries[e].id = data[r].id}
              IN /\ Cardinality(S) = 1
                 /\ \A e \in S :
                       /\ db.entries[e].metadata = data[r].metadata
                       /\ db.entries[e].embedding =
                             EncodeBy(encoder, <<ChunkOfRow(data[r])>>)[1]

\* the loop completed over a dataset of more than one batch whose last two
\* rows have different chunks
C16_Witness ==
    /\ notebook = "groq" /\ g_cell >= 1
    /\ Len(batches) >= 2
    /\ Len(db.entries) = Len(data)
    /\ ChunkOfRow(data[Len(data)]) # ChunkOfRow(data[Len(data) - 1])

\* C17: no step removes or updates an entry of the collection: the number of
\* entries never decreases and every entry, once added, stays in the
\* collection with the same id, embedding and metadata.
C17_NothingRemovedOrUpdated ==
    [][/\ Len(db'.entries) >= Len(db.entries)
       /\ \A e \in 1..Len(db.entries) :
             \E f \in 1..Len(db'.entries) : db'.entries[f] = db.entries[e]]_vars

\* the loop has run one batch on a collection that holds more entries than
\* the loop has added: the ids were in the store from an earlier run
C17_Witness ==
    /\ notebook = "groq" /\ ingesting
    /\ Len(batches) = 1
    /\ Len(db.entries) > Len(batches[1].ids)

\* C19: the batches of the ingestion loop partition the dataset: batch b
\* starts at row index (b - 1) * 128 and holds the rows from there on in
\* order, at most 128 of them and exactly 128 unless it is the last; once the
\* loop has completed every row index of [0, N) is in exactly one batch.
C19_BatchesPartition ==
    notebook = "groq" =>
        /\ \A b \in 1..Len(batches) :
              /\ batches[b].i = (b - 1) * batch_size
              /\ Len(batches[b].ids) >= 1
              /\ Len(batches[b].ids) <= batch_size
              /\ b < Len(batches) => Len(batches[b].ids) = batch_size
              /\ \A j \in 1..Len(batches[b].ids) :
                    /\ batches[b].i + j <= Len(data)
                    /\ batches[b].ids[j] = data[batches[b].i + j].id
        /\ g_cell >= 1 =>
              \A r \in 1..Len(data) :
                 Cardinality({b \in 1..Len(batches) :
                                 /\ batches[b].i < r
                                 /\ r <= batches[b].i + Len(batches[b].ids)}) = 1

\* the loop completed in three batches, the last one shorter
C19_Witness ==
    /\ notebook = "groq" /\ g_cell >= 1
    /\ Len(batches) = 3
    /\ Len(batches[3].ids) < batch_size

\* C20: both assertions of the ingestion loop hold in every iteration, the
\* last, shorter batch included: the batch has as many metadata entries as
\* ids and the encoder returned as many embeddings as ids, so no iteration
\* ends the loop early.
C20_AssertionsHold ==
    notebook = "groq" =>
        /\ \A b \in 1..Len(batches) :
              /\ batches[b].n_metadata = Len(batches[b].ids)
              /\ batches[b].n_embeds = Len(batches[b].ids)
        /\ ~(g_cell = 0 /\ ~ingesting /\ batches # <<>>)

\* a last batch that starts after row 0 and is shorter than batch_size passed
\* both assertions
C20_Witness ==
    /\ notebook = "groq"
    /\ \E b \in 1..Len(batches) :
          /\ batches[b].i > 0
          /\ Len(batches[b].ids) < batch_size
          /\ batches[b].n_embeds = Len(batches[b].ids)

\* ceil(n / d) for d > 0
CeilDiv(n, d) == (n + d - 1) \div d

\* C21: the ingestion loop terminates for every dataset length N after
\* exactly ceil(N / 128) iterations (none, and no add call, when N = 0).
\* While the loop runs, i is 128 times the number of iterations run, that
\* number never exceeds ceil(N / 128) and the loop takes a further iteration
\* exactly while it is below ceil(N / 128); when the cell has ended, exactly
\* ceil(N / 128) iterations have run.
C21_TerminatesAfterCeilIterations ==
    notebook = "groq" =>
        LET total == CeilDiv(Len(data), batch_size)
        IN /\ ingesting =>
                 /\ g_i = Len(batches) * batch_size
                 /\ Len(batches) <= total
                 /\ Len(batches) < total <=> g_i < Len(data)
           /\ g_cell >= 1 =>
                 /\ ~ingesting
                 /\ Len(batches) = total
                 /\ Len(data) = 0 => batches = <<>>

\* the loop has ended after three iterations on a dataset whose length is not
\* a multiple of the batch size
C21_Witness ==
    /\ notebook = "groq" /\ ~ingesting /\ g_cell >= 1
    /\ Len(data) % batch_size # 0
    /\ Len(batches) = 3
    /\ CeilDiv(Len(data), batch_size) = 3

\* C22: the collection setup never raises, whether or not the collection
\* existed before the cell ran: every call it makes on db returns,
\* create_collection is never called for a name that exists, get_collection
\* never for a name that does not, and the cell goes on with `collection`
\* bound to the collection, which exists in the store from then on.
C22_SetupNeverRaises ==
    notebook = "groq" =>
        /\ \A c \in 1..Len(setup_calls) :
              /\ setup_calls[c].ok
              /\ setup_calls[c].api = "create_collection" => ~setup_calls[c].existed
              /\ setup_calls[c].api = "get_collection" => setup_calls[c].existed
        /\ setup_calls # <<>> => ingesting
        /\ (ingesting \/ g_cell >= 1) => collection = collection_name /\ db.exists

\* the setup ran on a store that did not hold the collection
C22_Witness ==
    /\ notebook = "groq" /\ setup_calls # <<>>
    /\ ~setup_calls[1].existed
    /\ collection = collection_name /\ db.exists

\* C23: get_docs returns exactly one string per hit of collection.query, in
\* the order of the hits: the "content" field of the hit's metadata, or the
\* empty string when the metadata has no such field; no hit is left out and
\* the list has at most top_k entries.
C23_OneStringPerHit ==
    /\ \A c \in CallSet :
          (c.fn = "get_docs" /\ Done(c, "lookup")) =>
              /\ Len(c.docs) = Len(c.hits)
              /\ Len(c.docs) <= c.k
              /\ \A j \in 1..Len(c.hits) :
                    LET md == db.entries[c.hits[j] + 1].metadata
                    IN c.docs[j] = IF "content" \in DOMAIN md THEN md.content
                                   ELSE <<>>
    /\ ExtractDocs(<<<<[title |-> <<"title 1">>], Row(2).metadata>>>>)
          = <<<<>>, Row(2).metadata.content>>

\* get_docs returned two or more hits with different contents
C23_Witness ==
    \E c \in CallSet :
        /\ c.fn = "get_docs" /\ c.status = "returned"
        /\ Len(c.hits) >= 2
        /\ c.docs[1] # c.docs[2]

\* the vectors the embedder an index was built with gives a list of texts
EmbeddingsBy(by, texts) ==
    CASE by.model = MiniLM -> embed(texts)
      [] by.model = SentenceMiniLM -> encode(texts)
      [] OTHER -> ExactEmbed(texts)

\* C24: at the end of every cell of the FAISS notebook the index bound to
\* `index` holds exactly len(documents) vectors and the vector at position i
\* is the embedding the index's embedder gave documents[i] in the batch of
\* all documents; also after the second example has rebound `documents` and
\* `index`.
C24_IndexMatchesDocuments ==
    (notebook = "faiss" /\ cell >= 1) =>
        /\ ntotal(index) = Len(documents)
        /\ \A d \in 1..Len(documents) :
              index.vecs[d] = EmbeddingsBy(index.builtWith, documents)[d]

\* the second example has rebound `documents` and `index`
C24_Witness ==
    /\ notebook = "faiss" /\ cell = 3
    /\ documents = Documents2
    /\ index.builtWith.model = SentenceMiniLM
    /\ ntotal(index) = Len(Documents2)

\* the four sentences listed in the second example, part_000:330-333
Sentences2 == {E_Obtida, E_Tipos, E_Estufa, E_Investir}

\* C25: in the second FAISS example every entry of the documents list is
\* exactly one of the four listed sentences: the corpus and the index hold
\* four documents, and every document retrieve_documents returns is a single
\* sentence.
C25_FourSingleSentences ==
    (notebook = "faiss" /\ cell = 3) =>
        /\ Len(documents) = Cardinality(Sentences2)
        /\ ntotal(index) = Cardinality(Sentences2)
        /\ \A d \in 1..Len(documents) : documents[d] \in Sentences2
        /\ \A c \in CallSet :
              (c.fn = "retrieve_documents" /\ Done(c, "lookup"))
                  => \A j \in 1..Len(c.docs) : c.docs[j] \in Sentences2

\* C26: the text get_docs returns for a hit is the text whose embedding was
\* stored for that hit at ingestion: the chunk the loop built from the row of
\* the hit's id and handed to the encoder.
C26_ReturnedTextIsEmbeddedText ==
    \A c \in CallSet :
        (c.fn = "get_docs" /\ Done(c, "lookup")) =>
            \A j \in 1..Len(c.hits) :
                \A r \in 1..Len(data) :
                    data[r].id = db.entries[c.hits[j] + 1].id
                        => /\ c.docs[j] = Chunks(<<data[r].metadata>>)[1]
                           /\ db.entries[c.hits[j] + 1].embedding
                                 = EncodeBy(encoder, <<c.docs[j]>>)[1]

RECURSIVE SpaceJoined(_, _)
\* the first n of the documents, each two neighbours one space apart
SpaceJoined(docs, n) ==
    IF n = 0 THEN <<>>
    ELSE IF n = 1 THEN docs[1]
    ELSE SpaceJoined(docs, n - 1) \o <<" ">> \o docs[n]

\* C27: for every question and every retrieved list, rag's prompt is the
\* retrieved documents joined by a single space, then one space, then the
\* question, and generate_answer's prompt is "summarize: question: ", the
\* question, " context: ", then the documents joined by a single space.
C27_PromptTemplates ==
    \A c \in CallSet :
        Done(c, "assemble") =>
            /\ c.fn = "rag" =>
                  c.prompt = SpaceJoined(c.docs, Len(c.docs)) \o <<" ">> \o c.query
            /\ c.fn = "generate_answer" =>
                  c.prompt = <<"summarize: question: ">> \o c.query
                                \o <<" context: ">>
                                \o SpaceJoined(c.docs, Len(c.docs))

\* generate_answer assembled its prompt from two or more documents
C27_Witness ==
    \E c \in CallSet :
        /\ c.fn = "generate_answer" /\ Done(c, "assemble")
        /\ Len(c.docs) >= 2
        /\ c.query # <<>>

====
